---- MODULE Spec2Model ----
(***************************************************************************)
(* Model of the NLLB ONNX export / verification scripts:                   *)
(*   verify_onnx_model.py          (verify_model)                          *)
(*   export_nllb_with_cache.py     (export_nllb_with_cache)                *)
(*   export_nllb_fast.py           (export_fast)                           *)
(*   export_nllb_step_by_step.py   (export_step_by_step)                   *)
(*   download_nllb_manual.py       (download_xenova_models)                *)
(* Python strings on which the scripts compute (file names, tensor names)  *)
(* are sequences of one-character strings, so that str.replace, the "in"   *)
(* substring test and str.lower are computed rather than assumed.          *)
(***************************************************************************)
EXTENDS Integers, Sequences, FiniteSets, TLC

\* Largest number of decoder layers a loaded graph declares cache tensors for.
MaxLayers == 2

----------------------------------------------------------------------------
\* String literals of the scripts.

encoder_model_quantized ==
    <<"e","n","c","o","d","e","r","_","m","o","d","e","l","_","q","u","a","n","t","i","z","e","d",".","o","n","n","x">>
decoder_model_quantized ==
    <<"d","e","c","o","d","e","r","_","m","o","d","e","l","_","q","u","a","n","t","i","z","e","d",".","o","n","n","x">>
decoder_with_past_model_quantized ==
    <<"d","e","c","o","d","e","r","_","w","i","t","h","_","p","a","s","t","_","m","o","d","e","l","_","q","u","a","n","t","i","z","e","d",".","o","n","n","x">>
encoder_model ==
    <<"e","n","c","o","d","e","r","_","m","o","d","e","l",".","o","n","n","x">>
decoder_model ==
    <<"d","e","c","o","d","e","r","_","m","o","d","e","l",".","o","n","n","x">>
decoder_with_past_model ==
    <<"d","e","c","o","d","e","r","_","w","i","t","h","_","p","a","s","t","_","m","o","d","e","l",".","o","n","n","x">>
tokenizer_json ==
    <<"t","o","k","e","n","i","z","e","r",".","j","s","o","n">>
s_quantized ==
    <<"_","q","u","a","n","t","i","z","e","d">>
s_onnx ==
    <<".","o","n","n","x">>
s_quantized_onnx ==
    <<"_","q","u","a","n","t","i","z","e","d",".","o","n","n","x">>
s_past ==
    <<"p","a","s","t">>
s_present ==
    <<"p","r","e","s","e","n","t">>
s_present_dot ==
    <<"p","r","e","s","e","n","t",".">>
s_past_key_values ==
    <<"p","a","s","t","_","k","e","y","_","v","a","l","u","e","s">>
s_past_key_values_dot ==
    <<"p","a","s","t","_","k","e","y","_","v","a","l","u","e","s",".">>
s_Past ==
    <<"P","a","s","t">>
s_decoder ==
    <<"d","e","c","o","d","e","r">>
s_encoder ==
    <<"e","n","c","o","d","e","r">>
s_key ==
    <<"k","e","y">>
s_value ==
    <<"v","a","l","u","e">>
s_input_ids ==
    <<"i","n","p","u","t","_","i","d","s">>
s_encoder_hidden_states ==
    <<"e","n","c","o","d","e","r","_","h","i","d","d","e","n","_","s","t","a","t","e","s">>
s_encoder_attention_mask ==
    <<"e","n","c","o","d","e","r","_","a","t","t","e","n","t","i","o","n","_","m","a","s","k">>
s_attention_mask ==
    <<"a","t","t","e","n","t","i","o","n","_","m","a","s","k">>
s_logits ==
    <<"l","o","g","i","t","s">>
s_last_hidden_state ==
    <<"l","a","s","t","_","h","i","d","d","e","n","_","s","t","a","t","e">>
s_dot ==
    <<".">>
s_empty ==
    <<>>
ascii_uppercase ==
    <<"A","B","C","D","E","F","G","H","I","J","K","L","M","N","O","P","Q","R","S","T","U","V","W","X","Y","Z">>
ascii_lowercase ==
    <<"a","b","c","d","e","f","g","h","i","j","k","l","m","n","o","p","q","r","s","t","u","v","w","x","y","z">>
digits ==
    <<"0","1","2","3","4","5","6","7","8","9">>

----------------------------------------------------------------------------
\* Python string operations used by the scripts.

RECURSIVE str_replace(_, _, _)
\* s.replace(old, new): every non-overlapping occurrence, left to right.
str_replace(s, old, new) ==
    IF Len(s) < Len(old) \/ Len(old) = 0 THEN s
    ELSE IF SubSeq(s, 1, Len(old)) = old
         THEN new \o str_replace(SubSeq(s, Len(old) + 1, Len(s)), old, new)
         ELSE <<Head(s)>> \o str_replace(Tail(s), old, new)

\* sub in s
str_contains(s, sub) ==
    \E i \in 1..(Len(s) - Len(sub) + 1) : SubSeq(s, i, i + Len(sub) - 1) = sub

\* s.lower()
str_lower(s) ==
    [i \in 1..Len(s) |->
        IF \E k \in 1..Len(ascii_uppercase) : ascii_uppercase[k] = s[i]
        THEN ascii_lowercase[CHOOSE k \in 1..Len(ascii_uppercase) :
                                 ascii_uppercase[k] = s[i]]
        ELSE s[i]]

RECURSIVE str_join(_, _)
\* sep.join(parts)
str_join(sep, parts) ==
    IF Len(parts) = 0 THEN <<>>
    ELSE IF Len(parts) = 1 THEN parts[1]
    ELSE parts[1] \o sep \o str_join(sep, Tail(parts))

RECURSIVE str_split(_, _)
\* s.split(sep) for a one-character separator
str_split(s, sep) ==
    IF \A i \in 1..Len(s) : <<s[i]>> /= sep THEN <<s>>
    ELSE LET k == CHOOSE i \in 1..Len(s) :
                      /\ <<s[i]>> = sep
                      /\ \A j \in 1..(i - 1) : <<s[j]>> /= sep
         IN  <<SubSeq(s, 1, k - 1)>> \o str_split(SubSeq(s, k + 1, Len(s)), sep)

----------------------------------------------------------------------------
\* The graph-inference engine's view of an artifact file: the declared
\* input and output names of the graph the file holds, or a load error.

\* <prefix>.<layer>.<decoder|encoder>.<key|value> for layers 0..n-1
CacheTensorNames(prefix, n) ==
    { str_join(s_dot, <<prefix, <<digits[i + 1]>>, c, b>>) :
        i \in 0..(n - 1), c \in {s_decoder, s_encoder}, b \in {s_key, s_value} }

\* Top-level prefixes a cache graph may use for its cache inputs: the
\* convention of the exporter and a drifted one.
InputPrefixes == {s_past_key_values, s_Past}

EncoderGraphs ==
    { [ok |-> TRUE, inputs |-> {s_input_ids, s_attention_mask},
       outputs |-> {s_last_hidden_state}] }

DecoderGraphs ==
    { [ok |-> TRUE,
       inputs |-> {s_input_ids, s_encoder_attention_mask, s_encoder_hidden_states},
       outputs |-> {s_logits} \cup CacheTensorNames(s_present, n)] :
        n \in 0..MaxLayers }

DecoderWithPastGraphs ==
    { [ok |-> TRUE,
       inputs |-> {s_input_ids, s_encoder_attention_mask}
                    \cup CacheTensorNames(p, n),
       outputs |-> {s_logits} \cup CacheTensorNames(s_present, n)] :
        p \in InputPrefixes, n \in 0..MaxLayers }

Unloadable == [ok |-> FALSE, inputs |-> {}, outputs |-> {}]

\* ort.InferenceSession(str(file_path)): a session or an exception
InferenceSession(name) ==
    {Unloadable} \cup
    (CASE name = "encoder" -> EncoderGraphs
       [] name = "decoder" -> DecoderGraphs
       [] OTHER -> DecoderWithPastGraphs)

----------------------------------------------------------------------------
\* verify_onnx_model.py

files_to_check ==
    << [name |-> "encoder", filename |-> encoder_model_quantized],
       [name |-> "decoder", filename |-> decoder_model_quantized],
       [name |-> "decoder_with_past",
        filename |-> decoder_with_past_model_quantized] >>

ArtifactFiles ==
    { encoder_model_quantized, decoder_model_quantized,
      decoder_with_past_model_quantized,
      encoder_model, decoder_model, decoder_with_past_model }

TokenizerFile == tokenizer_json

Scripts ==
    { "verify_onnx_model", "export_nllb_with_cache", "export_nllb_fast",
      "export_nllb_step_by_step", "download_nllb_manual" }

VARIABLES
    script,           \* the script that runs
    fs,               \* names of the files in the directory the script works on
    fs0,              \* the files that were there when the script started
    written,          \* the files created or overwritten by this run
    pc,               \* position in the script
    idx,              \* index of the next entry of the list a loop runs over
    out,              \* lines printed so far
    exit_status,      \* exit status of the process (-1 while it runs)
    result,           \* return value of the export function ("unset" before)
    sessions,         \* verify: dict name -> loaded session
    past_inputs,      \* verify: local of the compatibility check
    decoder_present,  \* verify: local of the compatibility check
    example_present,  \* verify: decoder_present[0]
    example_past,     \* verify: past_inputs[0]
    current_result    \* verify: example_present.replace(...)

verify_locals == <<sessions, past_inputs, decoder_present, example_present,
                   example_past, current_result>>

export_locals == <<result, written>>

vars == <<script, fs, fs0, pc, idx, out, exit_status, verify_locals,
          export_locals>>

EmptyDict == [x \in {} |-> x]

\* One iteration of "for name, filename in files_to_check.items()".
Discover ==
    /\ pc = "discover"
    /\ LET name == files_to_check[idx].name
           filename == files_to_check[idx].filename
           filename_non_quant == str_replace(filename, s_quantized, s_empty)
           file_path == IF filename \in fs THEN filename ELSE filename_non_quant
       IN  IF filename \notin fs /\ filename_non_quant \notin fs
           THEN /\ out' = out \o <<(<<"NOT_FOUND", name, filename>>)>>
                            \o (IF name = "decoder_with_past"
                                THEN <<(<<"CRITICAL">>)>> ELSE <<>>)
                /\ UNCHANGED sessions
           ELSE \E g \in InferenceSession(name) :
                    IF g.ok
                    THEN /\ sessions' = sessions @@
                              (name :> [file_path |-> file_path,
                                        inputs |-> g.inputs,
                                        outputs |-> g.outputs])
                         /\ out' = Append(out, <<"LOADED", name, filename>>)
                    ELSE /\ out' = Append(out, <<"LOAD_FAILED", name>>)
                         /\ UNCHANGED sessions
    /\ idx' = idx + 1
    /\ pc' = IF idx = Len(files_to_check) THEN "check_sessions" ELSE "discover"
    /\ UNCHANGED <<script, fs, fs0, exit_status, past_inputs, decoder_present,
                   example_present, example_past, current_result,
                   export_locals>>

\* "if not sessions: ... sys.exit(1)"
CheckSessions ==
    /\ pc = "check_sessions"
    /\ IF DOMAIN sessions = {}
       THEN /\ out' = Append(out, <<"NO_MODELS">>)
            /\ exit_status' = 1
            /\ pc' = "exited"
       ELSE /\ pc' = "analyze"
            /\ UNCHANGED <<out, exit_status>>
    /\ UNCHANGED <<script, fs, fs0, idx, verify_locals, export_locals>>

RECURSIVE AnalysisLines(_)
\* "for name, session in sessions.items()": dict order is insertion order,
\* which is the order of files_to_check.
AnalysisLines(i) ==
    IF i > Len(files_to_check) THEN <<>>
    ELSE LET name == files_to_check[i].name
         IN  (IF name \in DOMAIN sessions
              THEN <<(<<"MODEL", name, Cardinality(sessions[name].inputs),
                        Cardinality(sessions[name].outputs)>>)>>
              ELSE <<>>) \o AnalysisLines(i + 1)

Analyze ==
    /\ pc = "analyze"
    /\ out' = out \o AnalysisLines(1)
    /\ pc' = "compat"
    /\ UNCHANGED <<script, fs, fs0, idx, exit_status, verify_locals,
                   export_locals>>

\* A rewrite that puts the wrong prefix: replace("present.", "past.")
RewriteToPast(name) == str_replace(name, s_present_dot, s_past \o s_dot)

\* example_present.replace("present.", "past_key_values.")
Rewrite(name) == str_replace(name, s_present_dot, s_past_key_values_dot)

\* [name for name in dwp_inputs if "past" in name.lower()]
PastInputs(dwp_inputs) ==
    { name \in dwp_inputs : str_contains(str_lower(name), s_past) }

\* [name for name in decoder_outputs if "present" in name]
DecoderPresent(decoder_outputs) ==
    { name \in decoder_outputs : str_contains(name, s_present) }

\* get_pattern(name)
get_pattern(name) ==
    IF str_contains(name, s_past_key_values)
    THEN "past_key_values.{layer}.{type}.{kv}"
    ELSE IF str_contains(name, s_present)
    THEN "present.{layer}.{type}.{kv}"
    ELSE "unknown"

\* suggest_conversion(decoder_output, dwp_input)
suggest_conversion(decoder_output, dwp_input) ==
    LET parts_out == str_split(decoder_output, s_dot)
        parts_in == str_split(dwp_input, s_dot)
    IN  IF parts_out[1] /= parts_in[1]
        THEN <<"SUGGEST_REPLACE", parts_out[1], parts_in[1]>>
        ELSE <<"SUGGEST_UNKNOWN">>

\* "Found n past_key_values inputs", the example and its pattern
PastLines(pi, example) ==
    << <<"FOUND_PAST", Cardinality(pi)>>,
       <<"PAST_EXAMPLE", example, get_pattern(example)>> >>

\* "Decoder outputs n 'present.*' tensors"
PresentLines(dp) ==
    IF dp /= {} THEN <<(<<"DECODER_PRESENT", Cardinality(dp)>>)>> ELSE <<>>

\* "if 'present.' in example_present and 'past' in example_past"
SuggestionLines(ep, ea) ==
    IF str_contains(ep, s_present_dot) /\ str_contains(ea, s_past)
    THEN <<suggest_conversion(ep, ea)>>
    ELSE <<>>

\* The verdict lines of the rewrite check for the two examples.
RewriteVerdict(produced, expected) ==
    IF produced = expected
    THEN <<(<<"MATCHES">>)>>
    ELSE <<(<<"MISMATCH", produced, expected>>)>>

\* "if 'decoder_with_past' in sessions:" ... the compatibility check.
\* sessions["decoder"] raises KeyError when the decoder was not loaded; the
\* exception is not caught, the interpreter prints the traceback and exits 1.
\* dwp_inputs and decoder_outputs are sets, so the element a list
\* comprehension over them puts first is any element.
CompatCheck ==
    /\ pc = "compat"
    /\ IF "decoder_with_past" \notin DOMAIN sessions
       THEN /\ pc' = "summary"
            /\ UNCHANGED <<out, exit_status, past_inputs, decoder_present,
                           example_present, example_past, current_result>>
       ELSE IF "decoder" \notin DOMAIN sessions
       THEN /\ pc' = "raised"
            /\ exit_status' = 1
            /\ UNCHANGED <<out, past_inputs, decoder_present,
                           example_present, example_past, current_result>>
       ELSE /\ past_inputs' = PastInputs(sessions["decoder_with_past"].inputs)
            /\ decoder_present' = DecoderPresent(sessions["decoder"].outputs)
            /\ pc' = "summary"
            /\ UNCHANGED exit_status
            /\ IF past_inputs' = {}
               THEN /\ out' = out \o <<(<<"NO_PAST_INPUTS">>)>>
                                  \o PresentLines(decoder_present')
                    /\ UNCHANGED <<example_present, example_past,
                                   current_result>>
               ELSE \E ea \in past_inputs' :
                      IF decoder_present' = {}
                      THEN /\ out' = out \o PastLines(past_inputs', ea)
                           /\ UNCHANGED <<example_present, example_past,
                                          current_result>>
                      ELSE \E ep \in decoder_present' :
                             /\ example_present' = ep
                             /\ example_past' = ea
                             /\ current_result' = Rewrite(ep)
                             /\ out' = out \o PastLines(past_inputs', ea)
                                   \o PresentLines(decoder_present')
                                   \o <<(<<"PRESENT_EXAMPLE", ep>>)>>
                                   \o SuggestionLines(ep, ea)
                                   \o RewriteVerdict(current_result', ea)
    /\ UNCHANGED <<script, fs, fs0, idx, sessions, export_locals>>

\* The summary and the normal return of verify_model: the script ends and
\* the interpreter exits 0.
Summary ==
    /\ pc = "summary"
    /\ out' = out \o
         (IF "decoder_with_past" \notin DOMAIN sessions
          THEN <<(<<"DWP_MISSING">>)>>
          ELSE IF past_inputs = {}
          THEN <<(<<"NO_PAST_KEY_VALUES">>)>>
          ELSE <<(<<"ALL_PRESENT">>), (<<"HAS_KV_CACHE">>)>>)
    /\ pc' = "done"
    /\ exit_status' = 0
    /\ UNCHANGED <<script, fs, fs0, idx, verify_locals, export_locals>>

----------------------------------------------------------------------------
\* export_nllb_with_cache.py, export_nllb_fast.py, export_nllb_step_by_step.py

Exporters ==
    { "export_nllb_with_cache", "export_nllb_fast", "export_nllb_step_by_step" }

\* export_nllb_with_cache.py: required_files
required_files ==
    << encoder_model_quantized, decoder_model_quantized,
       decoder_with_past_model_quantized >>

\* export_nllb_fast.py: required
required ==
    << encoder_model, decoder_model, decoder_with_past_model >>

\* export_nllb_step_by_step.py: models_to_quantize
models_to_quantize ==
    << encoder_model, decoder_model, decoder_with_past_model >>

Range(f) == { f[i] : i \in DOMAIN f }

\* The files one call of main_export may leave in output_dir: the graph
\* family under the names the calling script goes on to look for, or a part
\* of it.
MainExportFiles(s) ==
    IF s = "export_nllb_with_cache" THEN Range(required_files)
    ELSE Range(required)

\* check_dependencies() / the guarded import: a missing package ends the
\* script with sys.exit(1) before anything is written.
CheckDependencies ==
    /\ script \in Exporters
    /\ pc = "start"
    /\ \E installed \in BOOLEAN :
         IF installed
         THEN /\ pc' = "main_export"
              /\ UNCHANGED <<out, exit_status>>
         ELSE /\ out' = Append(out, <<"DEPENDENCY_MISSING">>)
              /\ exit_status' = 1
              /\ pc' = "exited"
    /\ UNCHANGED <<script, fs, fs0, idx, verify_locals, export_locals>>

\* Where each script goes on after main_export returned.
AfterMainExport(s) ==
    IF s = "export_nllb_step_by_step" THEN "quantize" ELSE "verify_files"

\* main_export(...) inside the try block. It overwrites what it produces.
\* When it raises, control passes to the script's "except Exception".
MainExport ==
    /\ script \in Exporters
    /\ pc = "main_export"
    /\ \E raises \in BOOLEAN, produced \in SUBSET MainExportFiles(script) :
         /\ fs' = fs \cup produced
         /\ written' = written \cup produced
         /\ IF raises
            THEN /\ pc' = "except"
                 /\ UNCHANGED out
            ELSE /\ out' = Append(out, <<"EXPORT_OK">>)
                 /\ pc' = AfterMainExport(script)
    /\ UNCHANGED <<script, fs0, idx, exit_status, result, verify_locals>>

\* "except Exception as e: print(Export failed) ... return False"
Except ==
    /\ script \in Exporters
    /\ pc = "except"
    /\ out' = Append(out, <<"EXPORT_FAILED">>)
    /\ result' = "False"
    /\ pc' = "main"
    /\ UNCHANGED <<script, fs, fs0, idx, exit_status, verify_locals, written>>

\* "for filename in required_files: exists = (output_dir / filename).exists()"
FileLines(files) ==
    [i \in 1..Len(files) |->
        IF files[i] \in fs THEN <<"PRESENT", files[i]>> ELSE <<"MISSING", files[i]>>]

\* export_nllb_with_cache: returns False when a required file is missing.
WithCacheResult ==
    IF \A i \in 1..Len(required_files) : required_files[i] \in fs
    THEN "True" ELSE "False"

\* export_fast: prints the check of each required file and returns True.
FastResult == "True"

\* "Verifying required files" of export_nllb_with_cache and export_fast.
VerifyFiles ==
    /\ script \in {"export_nllb_with_cache", "export_nllb_fast"}
    /\ pc = "verify_files"
    /\ IF script = "export_nllb_with_cache"
       THEN /\ result' = WithCacheResult
            /\ out' = out \o FileLines(required_files)
                   \o (IF WithCacheResult = "False"
                       THEN <<(<<"WARNING_MISSING">>)>> ELSE <<>>)
       ELSE /\ result' = FastResult
            /\ out' = out \o FileLines(required)
    /\ pc' = "main"
    /\ UNCHANGED <<script, fs, fs0, idx, exit_status, verify_locals, written>>

\* A handler that lets the failure of one quantization reach the outer
\* "except Exception" of export_step_by_step.
AfterQuantizeFailureAbort(i) == "except"

\* After "except Exception as e" of the quantization of entry i: the loop
\* goes on with the next entry.
AfterQuantizeFailure(i) ==
    IF i = Len(models_to_quantize) THEN "complete" ELSE "quantize"

\* One iteration of "for model_name in models_to_quantize".
\* quantize_dynamic writes output_path whether or not it exists.
Quantize ==
    /\ script = "export_nllb_step_by_step"
    /\ pc = "quantize"
    /\ LET model_name == models_to_quantize[idx]
           output_name == str_replace(model_name, s_onnx, s_quantized_onnx)
           next == IF idx = Len(models_to_quantize) THEN "complete" ELSE "quantize"
       IN  IF model_name \notin fs
           THEN /\ out' = Append(out, <<"SKIPPING", model_name>>)
                /\ pc' = next
                /\ UNCHANGED <<fs, written>>
           ELSE \E fails \in BOOLEAN :
                  IF fails
                  THEN /\ out' = Append(out, <<"QUANTIZATION_FAILED", model_name>>)
                       /\ pc' = AfterQuantizeFailure(idx)
                       /\ UNCHANGED <<fs, written>>
                  ELSE /\ fs' = fs \cup {output_name}
                       /\ written' = written \cup {output_name}
                       /\ out' = Append(out, <<"CREATED", output_name>>)
                       /\ pc' = next
    /\ idx' = idx + 1
    /\ UNCHANGED <<script, fs0, exit_status, result, verify_locals>>

\* "Export Complete!" and "return True" of export_step_by_step.
Complete ==
    /\ script = "export_nllb_step_by_step"
    /\ pc = "complete"
    /\ out' = Append(out, <<"EXPORT_COMPLETE">>)
    /\ result' = "True"
    /\ pc' = "main"
    /\ UNCHANGED <<script, fs, fs0, idx, exit_status, verify_locals, written>>

\* The tail of each export script under "if __name__ == '__main__'":
\* export_nllb_with_cache exits 0 or 1 with the result; export_fast and
\* export_step_by_step drop the result and the interpreter exits 0.
ExitCode(s, success) ==
    IF s = "export_nllb_with_cache" THEN (IF success = "True" THEN 0 ELSE 1)
    ELSE 0

Main ==
    /\ script \in Exporters
    /\ pc = "main"
    /\ exit_status' = ExitCode(script, result)
    /\ pc' = "done"
    /\ UNCHANGED <<script, fs, fs0, idx, out, verify_locals, export_locals>>

----------------------------------------------------------------------------
\* download_nllb_manual.py

\* download_xenova_models: files
files ==
    << encoder_model_quantized, decoder_model_quantized >>

\* proceed = input(...); "if proceed.lower() != 'y': return"
Prompt ==
    /\ script = "download_nllb_manual"
    /\ pc = "start"
    /\ \E proceed \in BOOLEAN :
         IF proceed
         THEN /\ pc' = "download"
              /\ UNCHANGED <<out, exit_status>>
         ELSE /\ out' = Append(out, <<"CANCELLED">>)
              /\ exit_status' = 0
              /\ pc' = "done"
    /\ UNCHANGED <<script, fs, fs0, idx, verify_locals, export_locals>>

\* download_file(url, dest_path): requests.get may raise before dest_path
\* is opened; open(dest_path, 'wb') creates or truncates the file, and the
\* transfer may still fail after that.
DownloadOutcomes == {"downloaded", "failed_before_open", "failed_after_open"}

\* One iteration of "for filename in files".
Download ==
    /\ script = "download_nllb_manual"
    /\ pc = "download"
    /\ LET filename == files[idx]
       IN  IF filename \in fs
           THEN /\ out' = Append(out, <<"ALREADY_EXISTS", filename>>)
                /\ UNCHANGED <<fs, written>>
           ELSE \E o \in DownloadOutcomes :
                  /\ fs' = IF o = "failed_before_open" THEN fs
                           ELSE fs \cup {filename}
                  /\ written' = IF o = "failed_before_open" THEN written
                                ELSE written \cup {filename}
                  /\ out' = Append(out, IF o = "downloaded"
                                        THEN <<"DOWNLOADED", filename>>
                                        ELSE <<"DOWNLOAD_FAILED", filename>>)
    /\ idx' = idx + 1
    /\ pc' = IF idx = Len(files) THEN "tokenizer" ELSE "download"
    /\ UNCHANGED <<script, fs0, exit_status, result, verify_locals>>

\* The tokenizer is downloaded without a look at what is there, then the
\* directory is listed and the script ends.
DownloadTokenizer ==
    /\ script = "download_nllb_manual"
    /\ pc = "tokenizer"
    /\ \E o \in DownloadOutcomes :
         /\ fs' = IF o = "failed_before_open" THEN fs
                  ELSE fs \cup {TokenizerFile}
         /\ written' = IF o = "failed_before_open" THEN written
                       ELSE written \cup {TokenizerFile}
         /\ out' = Append(out, IF o = "downloaded"
                               THEN <<"DOWNLOADED", TokenizerFile>>
                               ELSE <<"DOWNLOAD_FAILED", TokenizerFile>>)
    /\ exit_status' = 0
    /\ pc' = "done"
    /\ UNCHANGED <<script, fs0, idx, result, verify_locals>>

----------------------------------------------------------------------------

\* The directory a script finds: any of the files it deals with.
DirFiles(s) ==
    IF s = "download_nllb_manual" THEN Range(files) \cup {TokenizerFile}
    ELSE ArtifactFiles

Init ==
    /\ script \in Scripts
    /\ fs \in SUBSET DirFiles(script)
    /\ fs0 = fs
    /\ written = {}
    /\ pc = IF script = "verify_onnx_model" THEN "discover" ELSE "start"
    /\ idx = 1
    /\ out = <<>>
    /\ exit_status = -1
    /\ result = "unset"
    /\ sessions = EmptyDict
    /\ past_inputs = {}
    /\ decoder_present = {}
    /\ example_present = <<>>
    /\ example_past = <<>>
    /\ current_result = <<>>

Next ==
    \/ Discover
    \/ CheckSessions
    \/ Analyze
    \/ CompatCheck
    \/ Summary
    \/ CheckDependencies
    \/ MainExport
    \/ Except
    \/ VerifyFiles
    \/ Quantize
    \/ Complete
    \/ Main
    \/ Prompt
    \/ Download
    \/ DownloadTokenizer

Spec == Init /\ [][Next]_vars

----------------------------------------------------------------------------
\* Vocabulary of the properties.

Roles == {"encoder", "decoder", "decoder_with_past"}

\* role -> its compressed and its uncompressed file name
RoleFiles(r) ==
    CASE r = "encoder" -> {encoder_model_quantized, encoder_model}
      [] r = "decoder" -> {decoder_model_quantized, decoder_model}
      [] OTHER -> {decoder_with_past_model_quantized, decoder_with_past_model}

Tags == { out[k][1] : k \in 1..Len(out) }

Printed(tag) == tag \in Tags

\* the second fields of the printed lines with this tag
PrintedWith(tag) == { out[k][2] : k \in { j \in 1..Len(out) : out[j][1] = tag } }

Verifying == script = "verify_onnx_model"

Loaded == DOMAIN sessions

\* <layer, branch> of a cache tensor name prefix.layer.component.branch
Slot(name) ==
    LET t == str_split(name, s_dot) IN <<t[2], t[Len(t)]>>

Slots(names) == { Slot(n) : n \in names }

Layer(name) == str_split(name, s_dot)[2]

CacheName(prefix, i, c, b) == str_join(s_dot, <<prefix, <<digits[i + 1]>>, c, b>>)

\* C1: verify ends with exit status 0 only when the three roles were found
\* and loaded, cache inputs were detected and the rewrite check matched;
\* in every other end state its exit status is 1.
C1_ExitZeroIffFullyUsable ==
    (Verifying /\ exit_status /= -1) =>
        /\ exit_status \in {0, 1}
        /\ exit_status = 0 <=>
              /\ Loaded = Roles
              /\ past_inputs /= {}
              /\ Printed("MATCHES")

\* C2: whatever files are there, each role with neither file is recorded as
\* missing and verify runs to the end: no exception escapes it.
C2_NoExceptionEscapes ==
    Verifying =>
        /\ pc /= "raised"
        /\ \A i \in 1..(idx - 1) :
              RoleFiles(files_to_check[i].name) \cap fs = {} =>
                  /\ files_to_check[i].name \in PrintedWith("NOT_FOUND")
                  /\ files_to_check[i].name \notin Loaded

\* C3: when the files of all three roles are there and one of them fails to
\* load, the failure is reported, the other roles are still evaluated and the
\* run reaches its summary: with an unloadable encoder the compatibility
\* result of decoder and decoder_with_past is reported.
C3_LoadFailureDoesNotAbort ==
    ( /\ Verifying
      /\ \A r \in Roles : RoleFiles(r) \cap fs /= {}
      /\ Cardinality(PrintedWith("LOAD_FAILED")) = 1
      /\ pc \notin {"discover", "check_sessions", "analyze", "compat"} ) =>
        /\ pc \in {"summary", "done"}
        /\ Loaded = Roles \ PrintedWith("LOAD_FAILED")
        /\ PrintedWith("LOAD_FAILED") = {"encoder"} =>
              (Printed("FOUND_PAST") \/ Printed("NO_PAST_INPUTS"))

\* C4: the rewrite check reports a match exactly when the rewritten
\* representative output name is one of the declared input names of the cache
\* graph.
C4_MatchIffDeclaredInput ==
    (Verifying /\ example_present /= <<>>) =>
        ( Printed("MATCHES") <=>
            current_result \in sessions["decoder_with_past"].inputs )

\* C5: when the <layer, branch> slots of the first-step graph's present
\* outputs differ from those of the cache graph's past_key_values inputs
\* (both graphs declaring cache tensors), verify reports a failure that names
\* a layer present on one side only, and reports no success.
C5_SlotMismatchNamesLayer ==
    ( /\ Verifying
      /\ pc = "done"
      /\ {"decoder", "decoder_with_past"} \subseteq Loaded
      /\ decoder_present /= {}
      /\ past_inputs /= {}
      /\ Slots(decoder_present) /= Slots(past_inputs) ) =>
        /\ ~ Printed("ALL_PRESENT")
        /\ ~ Printed("HAS_KV_CACHE")
        /\ \E k \in 1..Len(out) :
              /\ out[k][1] = "MISMATCH"
              /\ LET there == { Layer(n) : n \in decoder_present }
                     here == { Layer(n) : n \in past_inputs }
                 IN  Layer(out[k][2]) \in (there \ here) \cup (here \ there)

\* C6: for every layer i, component and branch the rewrite the verifier
\* applies takes present.i.component.branch to
\* past_key_values.i.component.branch: the leading token is replaced and the
\* other tokens are copied.
C6_RewriteOfCanonicalName ==
    /\ \A i \in 0..(MaxLayers - 1), c \in {s_decoder, s_encoder},
          b \in {s_key, s_value} :
          example_present = CacheName(s_present, i, c, b) =>
              current_result = CacheName(s_past_key_values, i, c, b)
    /\ example_present /= <<>> =>
          /\ Head(str_split(current_result, s_dot)) = s_past_key_values
          /\ Tail(str_split(current_result, s_dot))
                = Tail(str_split(example_present, s_dot))

C6_Witness ==
    /\ Verifying
    /\ pc = "done"
    /\ example_present = CacheName(s_present, MaxLayers - 1, s_encoder, s_value)
    /\ current_result
          = CacheName(s_past_key_values, MaxLayers - 1, s_encoder, s_value)

\* C7: in export_step_by_step a quantization that fails is logged and is not
\* fatal: the loop goes on over the whole list, the uncompressed file of the
\* failed entry stays, and the export returns its normal result.
C7_CompressionFailureNotFatal ==
    ( /\ script = "export_nllb_step_by_step"
      /\ PrintedWith("QUANTIZATION_FAILED") /= {} ) =>
        /\ pc \in {"quantize", "complete", "main", "done"}
        /\ result \in {"unset", "True"}
        /\ PrintedWith("QUANTIZATION_FAILED") \subseteq fs
        /\ pc \in {"main", "done"} =>
              /\ result = "True"
              /\ Printed("EXPORT_COMPLETE")
              /\ \A i \in 1..Len(models_to_quantize) :
                    \/ models_to_quantize[i] \in
                          PrintedWith("SKIPPING") \cup
                          PrintedWith("QUANTIZATION_FAILED")
                    \/ str_replace(models_to_quantize[i], s_onnx,
                                   s_quantized_onnx) \in PrintedWith("CREATED")
        /\ pc = "done" => exit_status = 0

C7_Witness ==
    /\ script = "export_nllb_step_by_step"
    /\ pc = "done"
    /\ result = "True"
    /\ encoder_model \in PrintedWith("QUANTIZATION_FAILED")
    /\ encoder_model \in fs
    /\ encoder_model_quantized \notin fs
    /\ decoder_model_quantized \in PrintedWith("CREATED")
    /\ decoder_with_past_model \in PrintedWith("QUANTIZATION_FAILED")

\* the file names the script looks for after the export call
RequiredNames ==
    IF script = "export_nllb_with_cache" THEN Range(required_files)
    ELSE IF script = "export_nllb_fast" THEN Range(required)
    ELSE Range(models_to_quantize)

\* the required files that are not in the output directory
AbsentRequired == RequiredNames \ fs

\* the files the exporter printed as missing
ReportedMissing == PrintedWith("MISSING") \cup PrintedWith("SKIPPING")

\* C8: when the export call returned and a required role has no file in the
\* output directory, the exporter reports exactly the absent roles as missing
\* and reports no success: its result is not True and its exit status not 0.
C8_IncompleteExportNotSuccess ==
    ( /\ script \in Exporters
      /\ pc = "done"
      /\ Printed("EXPORT_OK")
      /\ AbsentRequired /= {} ) =>
        /\ ReportedMissing = AbsentRequired
        /\ result /= "True"
        /\ exit_status /= 0

\* C9: when the export call raises, no quantization is started afterwards
\* and the export script ends with exit status 1, whichever script it is.
C9_EngineFailureExitsOne ==
    (script \in Exporters /\ (pc = "except" \/ Printed("EXPORT_FAILED"))) =>
        /\ pc \in {"except", "main", "done"}
        /\ ~ Printed("CREATED")
        /\ ~ Printed("QUANTIZATION_FAILED")
        /\ pc = "done" => exit_status = 1

\* C10: an exporter neither deletes nor overwrites an artifact file that was
\* in the output directory when it started.
C10_ExistingArtifactsUntouched ==
    script \in Exporters =>
        /\ fs0 \subseteq fs
        /\ fs0 \cap written = {}

\* C11: when the cache graph has no past_key_values inputs or the first-step
\* graph has no present outputs, verify makes no rewrite check and does not
\* report the family as having working KV-cache inputs.
C11_EmptySubsetNotDetected ==
    ( /\ Verifying
      /\ pc = "done"
      /\ {"decoder", "decoder_with_past"} \subseteq Loaded
      /\ (past_inputs = {} \/ decoder_present = {}) ) =>
        /\ ~ Printed("MATCHES")
        /\ ~ Printed("MISMATCH")
        /\ ~ Printed("HAS_KV_CACHE")
        /\ ~ Printed("ALL_PRESENT")

\* C12: discovery takes the compressed file of a role when it exists and the
\* uncompressed one when only that exists, and the file name it reports for
\* a loaded role is the name of the file that was loaded.
C12_ReportedFileIsLoadedFile ==
    Verifying =>
        \A k \in 1..Len(out) :
            out[k][1] = "LOADED" =>
                LET name == out[k][2]
                    quantized == CHOOSE f \in RoleFiles(name) :
                                     str_contains(f, s_quantized)
                IN  /\ name \in Loaded
                    /\ sessions[name].file_path \in RoleFiles(name) \cap fs
                    /\ quantized \in fs => sessions[name].file_path = quantized
                    /\ out[k][3] = sessions[name].file_path

====
